---------------------------- MODULE Spec2Model ----------------------------
(* Model of preGenerateNextAction (src/unnamed/part_000): the handler that  *)
(* prepares the input of the "next action" generation step.  One behaviour  *)
(* is one invocation of the handler against one database content; every     *)
(* await of the handler is one action, and every awaited read may reject.   *)
(* Optional values (undefined / null in the source) are sequences of length *)
(* 0 or 1; nullable strings use the value NULL.                             *)
EXTENDS Integers, Sequences, FiniteSets, TLC

VARIABLES
    reviewJob,            \* table reviewJob: id -> row (with its checkListSet)
    reviewResult,         \* table reviewResult: rows in the order the database returns them
    pc,                   \* position of the invocation
    reviewJobId,          \* params.reviewJobId
    job,                  \* const reviewJob (line 116): <<>> before the read / when not found
    promptToUse,          \* let promptToUse (line 171)
    toolConfigurationId,  \* let toolConfigurationId (line 172)
    fetchedResults,       \* const reviewResults (line 208)
    templateData,         \* const templateData (line 257)
    toolConfiguration,    \* let toolConfiguration (line 278)
    toolFetchFailed,      \* the catch block of line 308 was entered
    result,               \* the value the invocation returned
    reads,                \* tables this invocation has queried, in order
    writes                \* reviewJob.update calls of this invocation: <<id, status>>

vars == <<reviewJob, reviewResult, pc, reviewJobId, job, promptToUse,
          toolConfigurationId, fetchedResults, templateData, toolConfiguration,
          toolFetchFailed, result, reads, writes>>

locals == <<promptToUse, toolConfigurationId, fetchedResults, templateData,
            toolConfiguration, toolFetchFailed>>

-----------------------------------------------------------------------------
(* Bounds *)

MaxResults == 2

-----------------------------------------------------------------------------
(* Values *)

NULL == "null"

None == <<>>

Some(v) == <<v>>

NEXT_ACTION_STATUS ==
    [SKIPPED |-> "skipped", PROCESSING |-> "processing", FAILED |-> "failed"]

\* every value the column may hold when the handler starts
StatusValues == {"pending", "processing", "completed", "failed", "skipped"}

DEFAULT_NEXT_ACTION_PROMPT == "DEFAULT_NEXT_ACTION_PROMPT"

-----------------------------------------------------------------------------
(* Database content *)

JobIds == {"j1", "j2"}

\* ids a caller may pass: the stored jobs and one id with no row
RequestIds == JobIds \cup {"j0"}

\* table promptTemplate; "t9" is an id a checklist set may still name, with no row
PromptTemplates ==
    [t1 |-> [prompt |-> "prompt of t1", toolConfigurationId |-> Some("tc1")],
     t2 |-> [prompt |-> "prompt of t2", toolConfigurationId |-> None],
     t3 |-> [prompt |-> "prompt of t3", toolConfigurationId |-> Some("tc2")]]

TemplateIdValues == {None, Some("t1"), Some("t2"), Some("t3"), Some("t9")}

\* what toolConfigRepo.findById resolves to
ToolConfigurations ==
    [tc1 |-> [id |-> "tc1", name |-> "tools one",
              knowledgeBase |-> <<[knowledgeBaseId |-> "kb1"]>>,
              codeInterpreter |-> TRUE,
              mcpConfig |-> Some([mcpServers |-> <<[command |-> "uvx"]>>])],
     tc2 |-> [id |-> "tc2", name |-> "tools two",
              knowledgeBase |-> <<>>,
              codeInterpreter |-> FALSE,
              mcpConfig |-> Some([mcpServers |-> <<>>])]]

Documents ==
    [j1 |-> <<[id |-> "d1", filename |-> "a.pdf"], [id |-> "d2", filename |-> ""]>>,
     j2 |-> <<[id |-> "d3", filename |-> "c.pdf"]>>]

\* a sourceReferences column value: null, a string, an array or another object
RefNull == [kind |-> "null", text |-> "", items |-> <<>>]

RefString(t) == [kind |-> "string", text |-> t, items |-> <<>>]

RefArray(xs) == [kind |-> "array", text |-> "", items |-> xs]

RefObject == [kind |-> "object", text |-> "", items |-> <<>>]

Ref(doc, page) == [isNull |-> FALSE, documentId |-> doc, pageNumber |-> page]

RefNullElement == [isNull |-> TRUE, documentId |-> None, pageNumber |-> None]

Row(jid, name, desc, parent, res, over, expl, text, score, comment, refs) ==
    [reviewJobId |-> jid,
     checkList |-> [id |-> name, name |-> name, description |-> desc, parent |-> parent],
     result |-> res, userOverride |-> over, explanation |-> expl,
     extractedText |-> text, confidenceScore |-> score, userComment |-> comment,
     sourceReferences |-> refs]

ReviewResultRows ==
    { Row("j1", "c-pass", "desc pass", Some([name |-> "root"]), "pass", FALSE,
          "ok", "text a", Some(90), NULL,
          RefString("[{\"documentId\":\"d1\",\"pageNumber\":2}]")),
      Row("j1", "c-fail", NULL, None, "fail", TRUE,
          "missing clause", NULL, Some(40), "checked by hand",
          RefArray(<<Ref(Some("d2"), None), Ref(Some("dX"), Some(0)), Ref(None, Some(3))>>)),
      Row("j1", "c-open", "desc open", Some([name |-> "group"]), NULL, FALSE,
          NULL, "text c", None, NULL, RefString("not json")),
      Row("j1", "c-bad", NULL, None, "fail", FALSE,
          "bad refs", NULL, None, NULL, RefArray(<<RefNullElement>>)),
      Row("j2", "c-other", "desc other", None, "fail", FALSE,
          "other job", "text o", Some(10), NULL, RefNull),
      Row("j2", "c-obj", NULL, Some([name |-> "root"]), "pass", FALSE,
          NULL, NULL, Some(70), "fine", RefString("{}")) }

RECURSIVE SeqsUpTo(_, _)
SeqsUpTo(S, n) ==
    IF n = 0 THEN {<<>>}
    ELSE LET shorter == SeqsUpTo(S, n - 1)
         IN  shorter \cup {Append(s, x) : s \in {t \in shorter : Len(t) = n - 1}, x \in S}

-----------------------------------------------------------------------------
(* Pure parts of the handler *)

\* JSON.parse on the strings the sourceReferences column holds in this model
JSONparse(text) ==
    IF text = "[{\"documentId\":\"d1\",\"pageNumber\":2}]"
    THEN [ok |-> TRUE, value |-> RefArray(<<Ref(Some("d1"), Some(2))>>)]
    ELSE IF text = "{}"
    THEN [ok |-> TRUE, value |-> RefObject]
    ELSE [ok |-> FALSE, value |-> RefNull]

\* documentMap.get(id): the filename of the last document with that id, if any
DocumentMapGet(documents, id) ==
    LET hits == {i \in 1..Len(documents) : documents[i].id = id}
    IN  IF hits = {} THEN None
        ELSE Some(documents[CHOOSE i \in hits : \A k \in hits : k <= i].filename)

Truthy(s) == s # "" /\ s # NULL

\* the callback of parsed.map (lines 251-254)
ResolveOne(ref, documents) ==
    LET found == IF ref.documentId # None /\ Truthy(ref.documentId[1])
                 THEN DocumentMapGet(documents, ref.documentId[1])
                 ELSE None
    IN  [filename |-> IF found # None /\ Truthy(found[1]) THEN found[1] ELSE "Unknown",
         pageNumber |-> ref.pageNumber]

\* resolveSourceReferences: threw = the map callback dereferenced a null element
resolveSourceReferences(refs, documents) ==
    LET falsy   == refs.kind = "null" \/ (refs.kind = "string" /\ refs.text = "")
        attempt == IF refs.kind = "string" THEN JSONparse(refs.text)
                   ELSE [ok |-> TRUE, value |-> refs]
        parsed  == attempt.value
    IN  IF falsy \/ ~attempt.ok \/ parsed.kind # "array"
        THEN [threw |-> FALSE, value |-> <<>>]
        ELSE IF \E i \in 1..Len(parsed.items) : parsed.items[i].isNull
        THEN [threw |-> TRUE, value |-> <<>>]
        ELSE [threw |-> FALSE,
              value |-> [i \in 1..Len(parsed.items) |->
                            ResolveOne(parsed.items[i], documents)]]

\* the callback of reviewResults.map (lines 258-271)
EnrichOne(item, documents) ==
    [checkList |-> [name |-> item.checkList.name,
                    description |-> item.checkList.description,
                    parentName |-> IF item.checkList.parent # None
                                   THEN item.checkList.parent[1].name ELSE NULL],
     result |-> item.result,
     userOverride |-> item.userOverride,
     explanation |-> item.explanation,
     extractedText |-> item.extractedText,
     confidenceScore |-> item.confidenceScore,
     userComment |-> item.userComment,
     sourceReferences |-> resolveSourceReferences(item.sourceReferences, documents).value]

EnrichedResults_OnlyFailed(results, documents) ==
    LET failed == SelectSeq(results, LAMBDA r : r.result = "fail")
    IN  [i \in 1..Len(failed) |-> EnrichOne(failed[i], documents)]

EnrichedResults(results, documents) ==
    [i \in 1..Len(results) |-> EnrichOne(results[i], documents)]

ReshapeThrows(results, documents) ==
    \E i \in 1..Len(results) :
        resolveSourceReferences(results[i].sourceReferences, documents).threw

\* db.reviewResult.findMany({ where: { reviewJobId } })
FindManyResults(table, id) == SelectSeq(table, LAMBDA r : r.reviewJobId = id)

\* db.promptTemplate.findUnique({ where: { id } })
FindUniqueTemplate(id) ==
    IF id \in DOMAIN PromptTemplates THEN Some(PromptTemplates[id]) ELSE None

TemplatePrompt_Default(template) == DEFAULT_NEXT_ACTION_PROMPT

\* promptToUse = template.prompt
TemplatePrompt(template) == template.prompt

\* the agent-compatible format of a tool configuration (lines 285-303)
TransformToolConfiguration(config) ==
    [id |-> config.id,
     name |-> config.name,
     knowledgeBase |-> IF Len(config.knowledgeBase) > 0
                       THEN Some(config.knowledgeBase) ELSE None,
     codeInterpreter |-> IF config.codeInterpreter THEN Some(TRUE) ELSE None,
     mcpConfig |-> IF config.mcpConfig # None /\ Len(config.mcpConfig[1].mcpServers) > 0
                   THEN config.mcpConfig ELSE None]

Result(should, prompt, data, tools, message) ==
    [shouldGenerate |-> should, promptTemplate |-> prompt, templateData |-> data,
     toolConfiguration |-> tools, message |-> message]

\* the final return statement (lines 320-327)
GenerateResult(prompt, data, tools) ==
    Result(TRUE, Some([prompt |-> prompt]), data, tools, None)

AfterJobFound_IgnoresFlag(row) == "updateProcessing"

\* step 2: the branch on checkListSet.enableNextAction
AfterJobFound(row) ==
    IF ~row.checkListSet.enableNextAction THEN "updateSkipped" ELSE "updateProcessing"

-----------------------------------------------------------------------------
(* The invocation *)

Init ==
    /\ \E enabled \in BOOLEAN, tid \in TemplateIdValues, st \in StatusValues :
          reviewJob =
            [j1 |-> [checkListSet |-> [enableNextAction |-> enabled,
                                       nextActionTemplateId |-> tid],
                     documents |-> Documents.j1,
                     nextActionStatus |-> st],
             j2 |-> [checkListSet |-> [enableNextAction |-> TRUE,
                                       nextActionTemplateId |-> Some("t1")],
                     documents |-> Documents.j2,
                     nextActionStatus |-> "pending"]]
    /\ reviewResult \in SeqsUpTo(ReviewResultRows, MaxResults)
    /\ reviewJobId \in RequestIds
    /\ pc = "start"
    /\ job = None
    /\ promptToUse = None
    /\ toolConfigurationId = None
    /\ fetchedResults = <<>>
    /\ templateData = None
    /\ toolConfiguration = None
    /\ toolFetchFailed = FALSE
    /\ result = None
    /\ reads = <<>>
    /\ writes = <<>>

\* db.reviewJob.update({ where: { id }, data: { nextActionStatus: status } })
\* (the update of the row step 1 just read is taken to complete; the awaited
\* reads and the repository construction are the calls that may reject)
UpdateStatus(id, status) ==
    /\ reviewJob' = [reviewJob EXCEPT ![id].nextActionStatus = status]
    /\ writes' = Append(writes, <<id, status>>)

Throw ==
    /\ pc' = "thrown"
    /\ UNCHANGED <<reviewJob, reviewResult, reviewJobId, job, locals, result, writes>>

\* line 113
GetPrismaClient ==
    /\ pc = "start"
    /\ pc' = "findJob"
    /\ UNCHANGED <<reviewJob, reviewResult, reviewJobId, job, locals, result, reads, writes>>

GetPrismaClientRejects ==
    /\ pc = "start"
    /\ Throw
    /\ UNCHANGED reads

\* step 1 and the branch of step 2 (lines 116-143)
FindReviewJob ==
    /\ pc = "findJob"
    /\ reads' = Append(reads, "reviewJob")
    /\ IF reviewJobId \in DOMAIN reviewJob
       THEN /\ job' = Some(reviewJob[reviewJobId])
            /\ pc' = AfterJobFound(reviewJob[reviewJobId])
            /\ result' = result
       ELSE /\ job' = None
            /\ pc' = "returned"
            /\ result' = Some(Result(FALSE, None, None, None, Some("Review job not found")))
    /\ UNCHANGED <<reviewJob, reviewResult, reviewJobId, locals, writes>>

FindReviewJobRejects ==
    /\ pc = "findJob"
    /\ reads' = Append(reads, "reviewJob")
    /\ Throw

\* lines 146-158
UpdateSkipped ==
    /\ pc = "updateSkipped"
    /\ UpdateStatus(reviewJobId, NEXT_ACTION_STATUS.SKIPPED)
    /\ result' = Some(Result(FALSE, None, None, None, Some("Next Action is disabled")))
    /\ pc' = "returned"
    /\ UNCHANGED <<reviewResult, reviewJobId, job, locals, reads>>

\* step 3 and the start of step 4 (lines 162-174)
UpdateProcessing ==
    /\ pc = "updateProcessing"
    /\ UpdateStatus(reviewJobId, NEXT_ACTION_STATUS.PROCESSING)
    /\ promptToUse' = Some(DEFAULT_NEXT_ACTION_PROMPT)
    /\ toolConfigurationId' = None
    /\ pc' = IF job[1].checkListSet.nextActionTemplateId # None
             THEN "findTemplate" ELSE "findResults"
    /\ UNCHANGED <<reviewResult, reviewJobId, job, fetchedResults, templateData,
                   toolConfiguration, toolFetchFailed, result, reads>>

FindTemplate_FallsBack ==
    /\ pc = "findTemplate"
    /\ reads' = Append(reads, "promptTemplate")
    /\ LET template == FindUniqueTemplate(job[1].checkListSet.nextActionTemplateId[1])
       IN  /\ promptToUse' = IF template = None THEN promptToUse
                             ELSE Some(TemplatePrompt(template[1]))
           /\ toolConfigurationId' = IF template = None THEN None
                                     ELSE template[1].toolConfigurationId
           /\ pc' = "findResults"
    /\ UNCHANGED <<reviewJob, reviewResult, reviewJobId, job, fetchedResults, templateData,
                   toolConfiguration, toolFetchFailed, result, writes>>

\* lines 175-202
FindTemplate ==
    /\ pc = "findTemplate"
    /\ reads' = Append(reads, "promptTemplate")
    /\ LET template == FindUniqueTemplate(job[1].checkListSet.nextActionTemplateId[1])
       IN  IF template = None
           THEN /\ pc' = "updateFailed"
                /\ UNCHANGED <<promptToUse, toolConfigurationId>>
           ELSE /\ promptToUse' = Some(TemplatePrompt(template[1]))
                /\ toolConfigurationId' = template[1].toolConfigurationId
                /\ pc' = "findResults"
    /\ UNCHANGED <<reviewJob, reviewResult, reviewJobId, job, fetchedResults, templateData,
                   toolConfiguration, toolFetchFailed, result, writes>>

FindTemplateRejects ==
    /\ pc = "findTemplate"
    /\ reads' = Append(reads, "promptTemplate")
    /\ Throw

\* lines 184-195
UpdateFailed ==
    /\ pc = "updateFailed"
    /\ UpdateStatus(reviewJobId, NEXT_ACTION_STATUS.FAILED)
    /\ result' = Some(Result(FALSE, None, None, None, Some("Prompt template not found")))
    /\ pc' = "returned"
    /\ UNCHANGED <<reviewResult, reviewJobId, job, locals, reads>>

\* steps 5 and 6, and the branch of step 7 (lines 208-279); without a tool
\* configuration id the handler goes on to its return statement
FindResults ==
    /\ pc = "findResults"
    /\ reads' = Append(reads, "reviewResult")
    /\ LET found == FindManyResults(reviewResult, reviewJobId)
           data  == Some([allResults |-> EnrichedResults(found, job[1].documents)])
       IN  /\ fetchedResults' = found
           /\ IF ReshapeThrows(found, job[1].documents)
              THEN /\ pc' = "thrown"
                   /\ UNCHANGED <<templateData, result>>
              ELSE /\ templateData' = data
                   /\ IF toolConfigurationId # None /\ Truthy(toolConfigurationId[1])
                      THEN /\ pc' = "makeRepository"
                           /\ result' = result
                      ELSE /\ pc' = "returned"
                           /\ result' = Some(GenerateResult(promptToUse[1], data,
                                                            toolConfiguration))
    /\ UNCHANGED <<reviewJob, reviewResult, reviewJobId, job, promptToUse,
                   toolConfigurationId, toolConfiguration, toolFetchFailed, writes>>

FindResultsRejects ==
    /\ pc = "findResults"
    /\ reads' = Append(reads, "reviewResult")
    /\ Throw

\* line 280
MakeRepository ==
    /\ pc = "makeRepository"
    /\ pc' = "findToolConfiguration"
    /\ UNCHANGED <<reviewJob, reviewResult, reviewJobId, job, locals, result, reads, writes>>

MakeRepositoryRejects ==
    /\ pc = "makeRepository"
    /\ Throw
    /\ UNCHANGED reads

\* the try block (lines 282-307) and the return statement
FindToolConfiguration ==
    /\ pc = "findToolConfiguration"
    /\ toolConfigurationId[1] \in DOMAIN ToolConfigurations
    /\ reads' = Append(reads, "toolConfiguration")
    /\ LET tools == Some(TransformToolConfiguration(ToolConfigurations[toolConfigurationId[1]]))
       IN  /\ toolConfiguration' = tools
           /\ result' = Some(GenerateResult(promptToUse[1], templateData, tools))
    /\ pc' = "returned"
    /\ UNCHANGED <<reviewJob, reviewResult, reviewJobId, job, promptToUse,
                   toolConfigurationId, fetchedResults, templateData, toolFetchFailed, writes>>

FindToolConfigurationFails_Rethrows ==
    /\ pc = "findToolConfiguration"
    /\ reads' = Append(reads, "toolConfiguration")
    /\ toolFetchFailed' = TRUE
    /\ pc' = "thrown"
    /\ UNCHANGED <<reviewJob, reviewResult, reviewJobId, job, promptToUse,
                   toolConfigurationId, fetchedResults, templateData, toolConfiguration,
                   result, writes>>

\* findById rejects: the catch block (lines 308-313) and the return statement
FindToolConfigurationFails ==
    /\ pc = "findToolConfiguration"
    /\ reads' = Append(reads, "toolConfiguration")
    /\ toolFetchFailed' = TRUE
    /\ result' = Some(GenerateResult(promptToUse[1], templateData, toolConfiguration))
    /\ pc' = "returned"
    /\ UNCHANGED <<reviewJob, reviewResult, reviewJobId, job, promptToUse,
                   toolConfigurationId, fetchedResults, templateData, toolConfiguration,
                   writes>>

Next ==
    \/ GetPrismaClient
    \/ GetPrismaClientRejects
    \/ FindReviewJob
    \/ FindReviewJobRejects
    \/ UpdateSkipped
    \/ UpdateProcessing
    \/ FindTemplate
    \/ FindTemplateRejects
    \/ UpdateFailed
    \/ FindResults
    \/ FindResultsRejects
    \/ MakeRepository
    \/ MakeRepositoryRejects
    \/ FindToolConfiguration
    \/ FindToolConfigurationFails

Spec == Init /\ [][Next]_vars

-----------------------------------------------------------------------------
(* Properties *)

Written(status) == \E i \in 1..Len(writes) : writes[i][2] = status

HasRead(table) == \E i \in 1..Len(reads) : reads[i] = table

Returned == pc = "returned" /\ result # None

ReturnedGenerate == Returned /\ result[1].shouldGenerate

\* the invocation found its job and the job's checklist set has the flag off
DisabledJobFound == job # None /\ ~job[1].checkListSet.enableNextAction

\* the invocation found its job, enabled, naming a template id that has no row
MissingTemplateJobFound ==
    /\ job # None
    /\ job[1].checkListSet.enableNextAction
    /\ job[1].checkListSet.nextActionTemplateId # None
    /\ job[1].checkListSet.nextActionTemplateId[1] \notin DOMAIN PromptTemplates

\* C1: once the job is found with enableNextAction false, the only write of the
\* invocation is SKIPPED to that job (never PROCESSING or FAILED), the only table
\* read is reviewJob, and the invocation returns shouldGenerate = false with the
\* message "Next Action is disabled", the job then being SKIPPED.
C1_DisabledIsSkipped ==
    DisabledJobFound =>
        /\ Len(writes) <= 1
        /\ \A i \in 1..Len(writes) :
               writes[i] = <<reviewJobId, NEXT_ACTION_STATUS.SKIPPED>>
        /\ ~Written(NEXT_ACTION_STATUS.PROCESSING)
        /\ ~Written(NEXT_ACTION_STATUS.FAILED)
        /\ reads = <<"reviewJob">>
        /\ pc = "returned" =>
               /\ writes = << <<reviewJobId, NEXT_ACTION_STATUS.SKIPPED>> >>
               /\ reviewJob[reviewJobId].nextActionStatus = NEXT_ACTION_STATUS.SKIPPED
               /\ result = Some(Result(FALSE, None, None, None,
                                       Some("Next Action is disabled")))

C1_Witness == DisabledJobFound /\ Returned

\* C2: every invocation that returns shouldGenerate = true returns the default
\* prompt when the job's checklist set names no template, and the stored prompt
\* of the named template when it names one.
C2_PromptResolution ==
    ReturnedGenerate =>
        LET tid == reviewJob[reviewJobId].checkListSet.nextActionTemplateId
        IN  IF tid = None
            THEN result[1].promptTemplate = Some([prompt |-> DEFAULT_NEXT_ACTION_PROMPT])
            ELSE /\ tid[1] \in DOMAIN PromptTemplates
                 /\ result[1].promptTemplate =
                        Some([prompt |-> PromptTemplates[tid[1]].prompt])

C2_Witness ==
    /\ ReturnedGenerate
    /\ reviewJob[reviewJobId].checkListSet.nextActionTemplateId # None
    /\ result[1].promptTemplate # Some([prompt |-> DEFAULT_NEXT_ACTION_PROMPT])

\* C3: once an enabled job is found whose template id has no prompt template,
\* the invocation reads neither review results nor tool configuration and never
\* takes the default prompt's path; when it returns, its last write set the job
\* to FAILED and it returns shouldGenerate = false with the message
\* "Prompt template not found" and no prompt.
C3_MissingTemplateFails ==
    MissingTemplateJobFound =>
        /\ ~HasRead("reviewResult")
        /\ ~HasRead("toolConfiguration")
        /\ templateData = None
        /\ pc = "returned" =>
               /\ Len(writes) > 0
               /\ writes[Len(writes)] = <<reviewJobId, NEXT_ACTION_STATUS.FAILED>>
               /\ reviewJob[reviewJobId].nextActionStatus = NEXT_ACTION_STATUS.FAILED
               /\ result = Some(Result(FALSE, None, None, None,
                                       Some("Prompt template not found")))

C3_Witness == MissingTemplateJobFound /\ Returned

\* C4: when the fetch of the tool configuration fails, the invocation returns
\* shouldGenerate = true with promptTemplate and templateData set and no
\* toolConfiguration, and the job stays PROCESSING with no FAILED written.
C4_ToolFailureContinues ==
    toolFetchFailed =>
        /\ ReturnedGenerate
        /\ result[1].promptTemplate = Some([prompt |-> promptToUse[1]])
        /\ result[1].templateData # None
        /\ result[1].templateData = templateData
        /\ result[1].toolConfiguration = None
        /\ reviewJob[reviewJobId].nextActionStatus = NEXT_ACTION_STATUS.PROCESSING
        /\ writes = << <<reviewJobId, NEXT_ACTION_STATUS.PROCESSING>> >>

C4_Witness == toolFetchFailed /\ Returned

\* C5: every invocation that returns shouldGenerate = true returns in allResults
\* one entry per review result row of the job, in the rows' order, whatever the
\* row's outcome, each entry carrying the row's check name, description, result,
\* userOverride, explanation, extractedText, confidenceScore and userComment,
\* and as parentName the parent check's name, or null without a parent.
C5_AllResultsReshaped ==
    ReturnedGenerate =>
        LET rows == SelectSeq(reviewResult, LAMBDA r : r.reviewJobId = reviewJobId)
            all  == result[1].templateData[1].allResults
        IN  /\ result[1].templateData # None
            /\ Len(all) = Len(rows)
            /\ fetchedResults = rows
            /\ \A i \in 1..Len(rows) :
                   /\ all[i].checkList.name = rows[i].checkList.name
                   /\ all[i].checkList.description = rows[i].checkList.description
                   /\ all[i].checkList.parentName =
                          IF rows[i].checkList.parent = None THEN NULL
                          ELSE rows[i].checkList.parent[1].name
                   /\ all[i].result = rows[i].result
                   /\ all[i].userOverride = rows[i].userOverride
                   /\ all[i].explanation = rows[i].explanation
                   /\ all[i].extractedText = rows[i].extractedText
                   /\ all[i].confidenceScore = rows[i].confidenceScore
                   /\ all[i].userComment = rows[i].userComment

C5_Witness ==
    /\ ReturnedGenerate
    /\ LET all == result[1].templateData[1].allResults
       IN  /\ Len(all) >= 2
           /\ \E i \in 1..Len(all) : all[i].result # "fail"
           /\ \E i \in 1..Len(all) : all[i].result = "fail"
           /\ \E i \in 1..Len(all) : all[i].checkList.parentName = NULL
           /\ \E i \in 1..Len(all) : all[i].checkList.parentName # NULL

\* C6: an invocation that ends without telling the caller to generate (it
\* returns shouldGenerate = false, or it throws after step 3 wrote PROCESSING)
\* does not leave the job's nextActionStatus at PROCESSING.
C6_NotLeftProcessing ==
    (/\ job # None
     /\ \/ (Returned /\ ~result[1].shouldGenerate)
        \/ (pc = "thrown" /\ Written(NEXT_ACTION_STATUS.PROCESSING)))
    => reviewJob[reviewJobId].nextActionStatus # NEXT_ACTION_STATUS.PROCESSING

=============================================================================
